---- MODULE Spec2Model ----
(***************************************************************************)
(* MinHashEncoder (dirty_cat/_minhash_encoder.py): configuration, fit,      *)
(* transform, the per-string hashing reducers and the LRU hash cache, plus  *)
(* the benchmark driver that constructs the encoder with batching options.  *)
(*                                                                          *)
(* Numbers.  A 32-bit quantity is kept as two 16-bit limbs <<hi, lo>>       *)
(* standing for hi * 2^16 + lo, so that 2^32 - 1 is exact.  hi is signed,   *)
(* which covers the signed 32-bit values of the fast hash as well.  A       *)
(* floating-point value is the rational [num, den] of two such numbers.     *)
(*                                                                          *)
(* Strings are sequences of character codes.  An input cell is a record     *)
(* [kind, s]: kind "None" (None), "nan" (float NaN) or "str" (a str s).     *)
(***************************************************************************)
EXTENDS Integers, Sequences, FiniteSets, TLC

\* ---------------------------------------------------------------- bounds
\* Largest number of rows / columns / cells of an input array.
MaxRows == 2
MaxCols == 2
MaxCells == 4
\* Capacity of the hash cache.  The class attribute is 2**10; the model
\* keeps the attribute but scales its value so that evictions occur.
_capacity == 2

\* ---------------------------------------------------------------- numbers
Limb == 2^16
Zero32 == <<0, 0>>
One32 == <<0, 1>>
\* 2**32 - 1
MaxU32 == <<Limb - 1, Limb - 1>>
\* np.infty: larger than every 32-bit value
Infty == <<Limb, 0>>

NumLeq(a, b) == a[1] < b[1] \/ (a[1] = b[1] /\ a[2] <= b[2])
MinOf(S) == CHOOSE a \in S : \A b \in S : NumLeq(a, b)
MaxOf(S) == CHOOSE a \in S : \A b \in S : NumLeq(b, a)

\* float(h): the value h / 1
FromInt(h) == [num |-> h, den |-> One32]
\* v / d for a value v that is still an integer
Divide(v, d) == [num |-> v.num, den |-> d]
\* an entry of np.zeros
Zero == FromInt(Zero32)
\* 0 <= v <= 1 (den is positive)
InUnit(v) == NumLeq(Zero32, v.num) /\ NumLeq(v.num, v.den)

\* ---------------------------------------------------------------- strings
Space == <<32>>
\* " Na "
Sentinel == <<32, 78, 97, 32>>

StrEmpty == <<>>
StrA == <<97>>
StrAB == <<97, 98>>
StrBA == <<98, 97>>

None == [kind |-> "None", s |-> <<>>]
NaN == [kind |-> "nan", s |-> <<>>]
Str(s) == [kind |-> "str", s |-> s]

\* All n-grams of the space-padded string, for every n of the range; the
\* set is empty when the padded string is shorter than the smallest n.
get_unique_ngrams(string, ngram_range) ==
    LET padded == Space \o string \o Space
    IN  UNION { { SubSeq(padded, i, i + n - 1) : i \in 1..(Len(padded) - n + 1) } :
                n \in ngram_range[1]..ngram_range[2] }

\* ---------------------------------------------------------------- hash family
\* A deterministic 16-bit mix of the characters of a gram, keyed by h0.
RECURSIVE Mix(_, _, _)
Mix(gram, h, m) ==
    IF gram = <<>> THEN h
    ELSE Mix(Tail(gram), (h * m + Head(gram)) % Limb, m)

\* murmurhash3_32("".join(gram), seed=d, positive=True): an unsigned 32-bit
\* value determined by (gram, seed).
murmurhash3_32(gram, seed) ==
    <<Mix(gram, seed + 1, 31), Mix(gram, 7 * seed + 3, 37)>>

\* The fast hash of one gram: a signed 32-bit value determined by
\* (gram, seed).
fast_hash(gram, seed) ==
    <<Mix(gram, seed + 5, 33) - (Limb \div 2), Mix(gram, 3 * seed + 1, 29)>>

\* ngram_min_hash(string, ngram_range, seed, return_minmax): the minimum (and
\* maximum) fast hash over the n-grams of the string; the raw hash value.
ngram_min_hash(string, ngram_range, seed, return_minmax) ==
    LET g0 == get_unique_ngrams(string, ngram_range)
        grams == IF g0 = {} THEN get_unique_ngrams(Sentinel, ngram_range) ELSE g0
        hashes == { fast_hash(g, seed) : g \in grams }
    IN  IF return_minmax THEN <<MinOf(hashes), MaxOf(hashes)>>
        ELSE <<MinOf(hashes)>>

\* ---------------------------------------------------------------- variants
\* Each variant below is the definition that follows it with one slip of the
\* kind the code could contain; the properties are checked to tell them apart.

\* _get_murmur_hash dividing by 2**31 - 1
_get_murmur_hash_div31(cfg, string) ==
    LET g0 == get_unique_ngrams(string, cfg.ngram_range)
        grams == IF Cardinality(g0) = 0
                 THEN get_unique_ngrams(Sentinel, cfg.ngram_range)
                 ELSE g0
        min_hashes == [ j \in 1..cfg.n_components |->
                        MinOf({Infty} \cup { murmurhash3_32(g, j - 1) : g \in grams }) ]
    IN  [ j \in 1..cfg.n_components |->
          Divide(FromInt(min_hashes[j]), <<(Limb \div 2) - 1, Limb - 1>>) ]

\* ---------------------------------------------------------------- reducers
_get_murmur_hash(cfg, string) ==
    LET g0 == get_unique_ngrams(string, cfg.ngram_range)
        grams == IF Cardinality(g0) = 0
                 THEN get_unique_ngrams(Sentinel, cfg.ngram_range)
                 ELSE g0
        min_hashes == [ j \in 1..cfg.n_components |->
                        MinOf({Infty} \cup { murmurhash3_32(g, j - 1) : g \in grams }) ]
    IN  [ j \in 1..cfg.n_components |-> Divide(FromInt(min_hashes[j]), MaxU32) ]

_get_fast_hash(cfg, string) ==
    IF cfg.minmax_hash
    THEN [ j \in 1..(2 * (cfg.n_components \div 2)) |->
           FromInt(ngram_min_hash(string, cfg.ngram_range, (j - 1) \div 2, TRUE)
                       [((j - 1) % 2) + 1]) ]
    ELSE [ j \in 1..cfg.n_components |->
           FromInt(ngram_min_hash(string, cfg.ngram_range, j - 1, FALSE)[1]) ]

\* ---------------------------------------------------------------- LRUDict
\* hd.cache lists the entries from least to most recently used.
LRUDict(capacity) == [set |-> TRUE, capacity |-> capacity, cache |-> <<>>]
\* the state of an encoder that has no hash_dict_ attribute yet
NoDict == [set |-> FALSE, capacity |-> 0, cache |-> <<>>]

Keys(hd) == [ j \in 1..Len(hd.cache) |-> hd.cache[j].key ]
Without(cache, key) == SelectSeq(cache, LAMBDA e : e.key # key)

LRUContains(hd, key) == \E j \in 1..Len(hd.cache) : hd.cache[j].key = key

LRUValue(hd, key) ==
    hd.cache[CHOOSE j \in 1..Len(hd.cache) : hd.cache[j].key = key].value

\* hd after hd[key] was read: a hit becomes the most recently used entry
LRUGet(hd, key) ==
    IF LRUContains(hd, key)
    THEN [hd EXCEPT !.cache = Append(Without(hd.cache, key),
                                     [key |-> key, value |-> LRUValue(hd, key)])]
    ELSE hd

\* What a lookup-or-insert of key does to hd, for the record kept in trace.
LRUEvents(hd, key) ==
    IF LRUContains(hd, key) THEN << <<"hit", key>> >>
    ELSE IF Len(hd.cache) >= hd.capacity
    THEN << <<"evict", Head(hd.cache).key>>, <<"miss", key>> >>
    ELSE << <<"miss", key>> >>

\* hd after hd[key] = value
LRUSet(hd, key, value) ==
    LET kept == IF LRUContains(hd, key) THEN Without(hd.cache, key)
                ELSE IF Len(hd.cache) >= hd.capacity THEN Tail(hd.cache)
                ELSE hd.cache
    IN  [hd EXCEPT !.cache = Append(kept, [key |-> key, value |-> value])]

\* ---------------------------------------------------------------- constructor
Params == {"n_components", "ngram_range", "hashing", "minmax_hash", "handle_missing"}

Defaults ==
    [n_components |-> 30, ngram_range |-> <<2, 4>>, hashing |-> "fast",
     minmax_hash |-> FALSE, handle_missing |-> "zero_impute"]

\* MinHashEncoder(**kwargs): a keyword the signature does not name is a
\* TypeError; the parameters are stored as given, without validation.
MinHashEncoder(kwargs) ==
    IF ~(DOMAIN kwargs \subseteq Params)
    THEN [exc |-> "TypeError", cfg |-> Defaults]
    ELSE [exc |-> "",
          cfg |-> [ p \in Params |-> IF p \in DOMAIN kwargs THEN kwargs[p]
                                     ELSE Defaults[p] ]]

\* fit creating the cache one entry too large
fit_result_capacity(cfg, hd, cnt) ==
    IF cfg.hashing \notin {"fast", "murmur"}
    THEN [outcome |-> "ValueError: hashing", hd |-> hd, count |-> cnt]
    ELSE IF cfg.handle_missing \notin {"error", "zero_impute"}
    THEN [outcome |-> "ValueError: handle_missing", hd |-> hd, count |-> cnt]
    ELSE [outcome |-> "ok", hd |-> LRUDict(_capacity + 1), count |-> 0]

\* ---------------------------------------------------------------- fit
\* The result of fit on an encoder whose hash_dict_ / count are hd / cnt.
fit_result(cfg, hd, cnt) ==
    IF cfg.hashing \notin {"fast", "murmur"}
    THEN [outcome |-> "ValueError: hashing", hd |-> hd, count |-> cnt]
    ELSE IF cfg.handle_missing \notin {"error", "zero_impute"}
    THEN [outcome |-> "ValueError: handle_missing", hd |-> hd, count |-> cnt]
    ELSE [outcome |-> "ok", hd |-> LRUDict(_capacity), count |-> 0]

\* ---------------------------------------------------------------- transform
\* check_input: a rectangular array of cells is returned as it is.
check_input(X0) == X0

\* np.zeros((rows, width))
zeros(rows, width) == [ i \in 1..rows |-> [ j \in 1..width |-> Zero ] ]

\* X_out[i, lo:hi] = v.  The slice is clipped to the row; a vector of another
\* length than the slice (and not of length 1) cannot be broadcast.
SetSlice(out, i, lo, hi, v) ==
    LET width == Len(out[i])
        a == IF lo < width THEN lo ELSE width
        b == IF hi < width THEN hi ELSE width
        len == IF b > a THEN b - a ELSE 0
    IN  IF Len(v) # len /\ Len(v) # 1
        THEN [exc |-> "ValueError: broadcast", out |-> out]
        ELSE [exc |-> "",
              out |-> [out EXCEPT ![i] =
                         [ j \in 1..width |->
                           IF j > a /\ j <= a + len
                           THEN (IF Len(v) = 1 THEN v[1] ELSE v[j - a])
                           ELSE @[j] ]]]

\* the inner loop body without the len(x) == 0 branch
transform_cell_hash_empty(cfg, hashing, acc, x, i, k) ==
    IF acc.exc # "" THEN acc
    ELSE IF x.kind = "nan" \/ x.kind = "None"
    THEN [acc EXCEPT !.is_nan_idx = TRUE]
    ELSE IF ~acc.hd.set
    THEN [acc EXCEPT !.exc = "AttributeError"]
    ELSE IF ~LRUContains(acc.hd, x.s)
    THEN LET v == IF hashing = "fast" THEN _get_fast_hash(cfg, x.s)
                  ELSE _get_murmur_hash(cfg, x.s)
             w == SetSlice(acc.X_out, i, k * cfg.n_components, acc.counter, v)
         IN  IF w.exc # "" THEN [acc EXCEPT !.exc = w.exc]
             ELSE [acc EXCEPT !.X_out = w.out, !.hd = LRUSet(acc.hd, x.s, v),
                              !.trace = @ \o LRUEvents(acc.hd, x.s)]
    ELSE LET v == LRUValue(acc.hd, x.s)
             w == SetSlice(acc.X_out, i, k * cfg.n_components, acc.counter, v)
         IN  IF w.exc # "" THEN [acc EXCEPT !.exc = w.exc, !.hd = LRUGet(acc.hd, x.s)]
             ELSE [acc EXCEPT !.X_out = w.out, !.hd = LRUGet(acc.hd, x.s),
                              !.trace = @ \o LRUEvents(acc.hd, x.s)]

\* the inner loop body reading, on a hit, the most recently used entry
\* instead of the entry of x
transform_cell_stale_hit(cfg, hashing, acc, x, i, k) ==
    IF acc.exc # "" THEN acc
    ELSE IF x.kind = "nan" \/ x.kind = "None"
    THEN [acc EXCEPT !.is_nan_idx = TRUE]
    ELSE IF Len(x.s) = 0
    THEN [acc EXCEPT !.is_nan_idx = TRUE]
    ELSE IF ~acc.hd.set
    THEN [acc EXCEPT !.exc = "AttributeError"]
    ELSE IF ~LRUContains(acc.hd, x.s)
    THEN LET v == IF hashing = "fast" THEN _get_fast_hash(cfg, x.s)
                  ELSE _get_murmur_hash(cfg, x.s)
             w == SetSlice(acc.X_out, i, k * cfg.n_components, acc.counter, v)
         IN  IF w.exc # "" THEN [acc EXCEPT !.exc = w.exc]
             ELSE [acc EXCEPT !.X_out = w.out, !.hd = LRUSet(acc.hd, x.s, v),
                              !.trace = @ \o LRUEvents(acc.hd, x.s)]
    ELSE LET v == acc.hd.cache[Len(acc.hd.cache)].value
             w == SetSlice(acc.X_out, i, k * cfg.n_components, acc.counter, v)
         IN  IF w.exc # "" THEN [acc EXCEPT !.exc = w.exc, !.hd = LRUGet(acc.hd, x.s)]
             ELSE [acc EXCEPT !.X_out = w.out, !.hd = LRUGet(acc.hd, x.s),
                              !.trace = @ \o LRUEvents(acc.hd, x.s)]

\* the inner loop body writing X_out[i, k : k + n_components]
transform_cell_unscaled(cfg, hashing, acc, x, i, k) ==
    IF acc.exc # "" THEN acc
    ELSE IF x.kind = "nan" \/ x.kind = "None"
    THEN [acc EXCEPT !.is_nan_idx = TRUE]
    ELSE IF Len(x.s) = 0
    THEN [acc EXCEPT !.is_nan_idx = TRUE]
    ELSE IF ~acc.hd.set
    THEN [acc EXCEPT !.exc = "AttributeError"]
    ELSE IF ~LRUContains(acc.hd, x.s)
    THEN LET v == IF hashing = "fast" THEN _get_fast_hash(cfg, x.s)
                  ELSE _get_murmur_hash(cfg, x.s)
             w == SetSlice(acc.X_out, i, k, k + cfg.n_components, v)
         IN  IF w.exc # "" THEN [acc EXCEPT !.exc = w.exc]
             ELSE [acc EXCEPT !.X_out = w.out, !.hd = LRUSet(acc.hd, x.s, v),
                              !.trace = @ \o LRUEvents(acc.hd, x.s)]
    ELSE LET v == LRUValue(acc.hd, x.s)
             w == SetSlice(acc.X_out, i, k, k + cfg.n_components, v)
         IN  IF w.exc # "" THEN [acc EXCEPT !.exc = w.exc, !.hd = LRUGet(acc.hd, x.s)]
             ELSE [acc EXCEPT !.X_out = w.out, !.hd = LRUGet(acc.hd, x.s),
                              !.trace = @ \o LRUEvents(acc.hd, x.s)]

\* The body of the inner loop for the cell x of row i (from 1) of column k
\* (from 0); hashing selects _get_fast_hash or _get_murmur_hash.
transform_cell(cfg, hashing, acc, x, i, k) ==
    IF acc.exc # "" THEN acc
    ELSE IF x.kind = "nan" \/ x.kind = "None"
    THEN [acc EXCEPT !.is_nan_idx = TRUE]
    ELSE IF Len(x.s) = 0
    THEN [acc EXCEPT !.is_nan_idx = TRUE]
    ELSE IF ~acc.hd.set
    THEN [acc EXCEPT !.exc = "AttributeError"]
    ELSE IF ~LRUContains(acc.hd, x.s)
    THEN LET v == IF hashing = "fast" THEN _get_fast_hash(cfg, x.s)
                  ELSE _get_murmur_hash(cfg, x.s)
             w == SetSlice(acc.X_out, i, k * cfg.n_components, acc.counter, v)
         IN  IF w.exc # "" THEN [acc EXCEPT !.exc = w.exc]
             ELSE [acc EXCEPT !.X_out = w.out, !.hd = LRUSet(acc.hd, x.s, v),
                              !.trace = @ \o LRUEvents(acc.hd, x.s)]
    ELSE LET v == LRUValue(acc.hd, x.s)
             w == SetSlice(acc.X_out, i, k * cfg.n_components, acc.counter, v)
         IN  IF w.exc # "" THEN [acc EXCEPT !.exc = w.exc, !.hd = LRUGet(acc.hd, x.s)]
             ELSE [acc EXCEPT !.X_out = w.out, !.hd = LRUGet(acc.hd, x.s),
                              !.trace = @ \o LRUEvents(acc.hd, x.s)]

\* for i, x in enumerate(X_in)
RECURSIVE rows_loop(_, _, _, _, _, _)
rows_loop(cfg, hashing, X, acc, k, i) ==
    IF i > Len(X) THEN acc
    ELSE rows_loop(cfg, hashing, X,
                   transform_cell(cfg, hashing, acc, X[i][k + 1], i, k), k, i + 1)

\* the outer loop without counter += n_components
RECURSIVE columns_loop_no_counter(_, _, _, _, _)
columns_loop_no_counter(cfg, hashing, X, acc, k) ==
    IF k >= Len(X[1]) THEN acc
    ELSE columns_loop_no_counter(cfg, hashing, X,
                                 rows_loop(cfg, hashing, X, acc, k, 1), k + 1)

\* the outer loop with is_nan_idx = False at the start of every column
RECURSIVE columns_loop_reset_flag(_, _, _, _, _)
columns_loop_reset_flag(cfg, hashing, X, acc, k) ==
    IF k >= Len(X[1]) THEN acc
    ELSE columns_loop_reset_flag(cfg, hashing, X,
                                 [rows_loop(cfg, hashing, X,
                                            [acc EXCEPT !.is_nan_idx = FALSE], k, 1)
                                      EXCEPT !.counter = @ + cfg.n_components],
                                 k + 1)

\* for k in range(X.shape[1]), with counter += n_components after each column
RECURSIVE columns_loop(_, _, _, _, _)
columns_loop(cfg, hashing, X, acc, k) ==
    IF k >= Len(X[1]) THEN acc
    ELSE columns_loop(cfg, hashing, X,
                      [rows_loop(cfg, hashing, X, acc, k, 1)
                           EXCEPT !.counter = @ + cfg.n_components],
                      k + 1)

\* One "if self.hashing == ..." block: allocate X_out, then the two loops.
encode_block(cfg, hashing, X, acc) ==
    IF acc.exc # "" \/ cfg.hashing # hashing THEN acc
    ELSE columns_loop(cfg, hashing, X,
                      [acc EXCEPT !.X_out = zeros(Len(X), cfg.n_components * Len(X[1])),
                                  !.bound = TRUE,
                                  !.counter = cfg.n_components],
                      0)

\* transform raising the missing-data error before the loops
transform_result_early(cfg, hd, X0) ==
    LET X == check_input(X0)
        raise(e, d, t) == [outcome |-> e, X_out |-> <<>>, hd |-> d, trace |-> t]
    IN  IF cfg.minmax_hash /\ cfg.n_components % 2 # 0
        THEN raise("AssertionError", hd, <<>>)
        ELSE IF cfg.hashing = "murmur" /\ cfg.minmax_hash
        THEN raise("AssertionError", hd, <<>>)
        ELSE IF /\ cfg.handle_missing = "error"
                /\ \E i \in 1..Len(X) : \E k \in 1..Len(X[1]) :
                      X[i][k].kind # "str" \/ Len(X[i][k].s) = 0
        THEN raise("ValueError: missing", hd, <<>>)
        ELSE LET acc0 == [X_out |-> <<>>, bound |-> FALSE, hd |-> hd,
                          is_nan_idx |-> FALSE, exc |-> "", counter |-> 0,
                          trace |-> <<>>]
                 acc1 == encode_block(cfg, "fast", X, acc0)
                 acc == encode_block(cfg, "murmur", X, acc1)
             IN  IF acc.exc # "" THEN raise(acc.exc, acc.hd, acc.trace)
                 ELSE IF ~acc.bound THEN raise("UnboundLocalError", acc.hd, acc.trace)
                 ELSE [outcome |-> "ok", X_out |-> acc.X_out, hd |-> acc.hd,
                       trace |-> acc.trace]

\* The result of transform(X0) on an encoder whose hash_dict_ is hd: the
\* outcome, the matrix returned (<<>> when an exception is raised), the
\* hash_dict_ left behind and the cache events of the call, in order.
transform_result(cfg, hd, X0) ==
    LET X == check_input(X0)
        raise(e, d, t) == [outcome |-> e, X_out |-> <<>>, hd |-> d, trace |-> t]
    IN  IF cfg.minmax_hash /\ cfg.n_components % 2 # 0
        THEN raise("AssertionError", hd, <<>>)
        ELSE IF cfg.hashing = "murmur" /\ cfg.minmax_hash
        THEN raise("AssertionError", hd, <<>>)
        ELSE LET acc0 == [X_out |-> <<>>, bound |-> FALSE, hd |-> hd,
                          is_nan_idx |-> FALSE, exc |-> "", counter |-> 0,
                          trace |-> <<>>]
                 acc1 == encode_block(cfg, "fast", X, acc0)
                 acc == encode_block(cfg, "murmur", X, acc1)
             IN  IF acc.exc # "" THEN raise(acc.exc, acc.hd, acc.trace)
                 ELSE IF acc.is_nan_idx /\ cfg.handle_missing = "error"
                 THEN raise("ValueError: missing", acc.hd, acc.trace)
                 ELSE IF ~acc.bound THEN raise("UnboundLocalError", acc.hd, acc.trace)
                 ELSE [outcome |-> "ok", X_out |-> acc.X_out, hd |-> acc.hd,
                       trace |-> acc.trace]

\* ---------------------------------------------------------------- benchmark
\* data[dataset_size]: one column of strings
BenchData == << <<Str(StrA)>>, <<Str(StrAB)>> >>

\* MinHashEncoder(batch=batched, n_jobs=n_jobs,
\*                batch_per_job=batch_per_job).fit(X).transform(X)
benchmark_result(batched, n_jobs, batch_per_job) ==
    LET enc == MinHashEncoder([batch |-> batched, n_jobs |-> n_jobs,
                               batch_per_job |-> batch_per_job])
        fitted == fit_result(enc.cfg, NoDict, -1)
    IN  IF enc.exc # "" THEN [outcome |-> enc.exc, X_out |-> <<>>]
        ELSE IF fitted.outcome # "ok" THEN [outcome |-> fitted.outcome, X_out |-> <<>>]
        ELSE LET t == transform_result(enc.cfg, fitted.hd, BenchData)
             IN  [outcome |-> t.outcome, X_out |-> t.X_out]

\* ---------------------------------------------------------------- inputs
Cells == {None, NaN, Str(StrEmpty), Str(StrA), Str(StrAB), Str(StrBA)}

Shapes == { sh \in (1..MaxRows) \X (1..MaxCols) : sh[1] * sh[2] <= MaxCells }

Inputs == UNION { [1..sh[1] -> [1..sh[2] -> Cells]] : sh \in Shapes }

\* The keyword arguments the encoder under study is constructed with.
\* n_components is even or odd; ngram_range is the default or one under which
\* a one-character string has no n-gram.
Kwargs ==
    { [n_components |-> p[1], ngram_range |-> p[2], hashing |-> h,
       minmax_hash |-> m, handle_missing |-> hm] :
      p \in {<<2, <<4, 4>>>>, <<3, <<2, 4>>>>}, h \in {"fast", "murmur"},
      m \in BOOLEAN, hm \in {"error", "zero_impute"} }
    \cup {[hashing |-> "md5"], [handle_missing |-> "ignore"],
          [n_components |-> 2, hashing |-> "md5", handle_missing |-> "ignore"]}

\* The parametrize grid of the benchmark (n_jobs cut to its first values).
BenchGrid == [batched : BOOLEAN, n_jobs : {1, 4, 8}, batch_per_job : {1, 2, 4}]

\* ---------------------------------------------------------------- state
VARIABLES
    cfg,         \* the constructor parameters of the encoder
    hash_dict_,  \* its LRUDict (NoDict before the first successful fit)
    count,       \* its count attribute (-1 before the first successful fit)
    op,          \* the call that has just returned to the caller: "fit" or
                 \* "transform"; "idle" once the caller has taken the result
    X,           \* the argument of that transform
    outcome,     \* how that call ended: "ok" or the exception raised
    X_out,       \* the matrix that transform returned, <<>> if none
    trace,       \* history: the cache events (hit, miss, evict) of that transform
    bench        \* the benchmark runs made so far, the latest two kept

vars == <<cfg, hash_dict_, count, op, X, outcome, X_out, trace, bench>>

Init ==
    /\ \E kw \in Kwargs : cfg = MinHashEncoder(kw).cfg
    /\ hash_dict_ = NoDict
    /\ count = -1
    /\ op = "idle"
    /\ X = <<>>
    /\ outcome = "ok"
    /\ X_out = <<>>
    /\ trace = <<>>
    /\ bench = <<>>

fit ==
    /\ op = "idle"
    /\ \E r \in {fit_result(cfg, hash_dict_, count)} :
          /\ op' = "fit"
          /\ outcome' = r.outcome
          /\ hash_dict_' = r.hd
          /\ count' = r.count
          /\ X' = <<>>
          /\ X_out' = <<>>
          /\ trace' = <<>>
          /\ UNCHANGED <<cfg, bench>>

transform ==
    /\ op = "idle"
    /\ \E X0 \in Inputs :
          \E r \in {transform_result(cfg, hash_dict_, X0)} :
              /\ op' = "transform"
              /\ X' = X0
              /\ outcome' = r.outcome
              /\ X_out' = r.X_out
              /\ hash_dict_' = r.hd
              /\ trace' = r.trace
              /\ UNCHANGED <<cfg, count, bench>>

benchmark ==
    \E g \in BenchGrid :
        \E r \in {benchmark_result(g.batched, g.n_jobs, g.batch_per_job)} :
            /\ bench' = IF Len(bench) < 2
                        THEN Append(bench, [grid |-> g, outcome |-> r.outcome,
                                            X_out |-> r.X_out])
                        ELSE <<bench[2], [grid |-> g, outcome |-> r.outcome,
                                          X_out |-> r.X_out]>>
            /\ UNCHANGED <<cfg, hash_dict_, count, op, X, outcome, X_out, trace>>

\* The caller takes the result (or the exception) of the call; the encoder
\* keeps cfg, hash_dict_ and count.
return ==
    /\ op # "idle"
    /\ op' = "idle"
    /\ X' = <<>>
    /\ outcome' = "ok"
    /\ X_out' = <<>>
    /\ trace' = <<>>
    /\ UNCHANGED <<cfg, hash_dict_, count, bench>>

Next == fit \/ transform \/ return

Spec == Init /\ [][Next]_vars

NextBench == benchmark

SpecBench == Init /\ [][NextBench]_vars

TypeOK ==
    /\ op \in {"idle", "fit", "transform"}
    /\ hash_dict_.set \in BOOLEAN
    /\ count \in {-1, 0}

\* ---------------------------------------------------------------- vocabulary
\* A configuration that satisfies the documented constraints.
ValidConfig(c) ==
    /\ c.hashing \in {"fast", "murmur"}
    /\ c.handle_missing \in {"error", "zero_impute"}
    /\ c.minmax_hash => (c.hashing = "fast" /\ c.n_components % 2 = 0)

Fitted == hash_dict_.set
IsMissing(x) == x.kind \in {"None", "nan"}
IsText(x) == x.kind = "str" /\ x.s # <<>>
IsEmptyStr(x) == x.kind = "str" /\ x.s = <<>>

Rows(A) == 1..Len(A)
Cols(A) == 0..(Len(A[1]) - 1)

\* The encoding of a string by the reducer the configuration selects.
reduce(c, string) ==
    IF c.hashing = "fast" THEN _get_fast_hash(c, string)
    ELSE _get_murmur_hash(c, string)

\* The n_components output columns of input column k (from 0) in a row.
SubVector(row, k) ==
    SubSeq(row, k * cfg.n_components + 1, (k + 1) * cfg.n_components)

ZeroVector == [ j \in 1..cfg.n_components |-> Zero ]

\* The strings transform looks up, in the order of its loops.
RECURSIVE Accessed(_, _, _)
Accessed(A, k, i) ==
    IF k >= Len(A[1]) THEN <<>>
    ELSE IF i > Len(A) THEN Accessed(A, k + 1, 1)
    ELSE (IF IsText(A[i][k + 1]) THEN <<A[i][k + 1].s>> ELSE <<>>)
             \o Accessed(A, k, i + 1)

\* seq with only the last occurrence of each element kept
DedupLast(seq) ==
    LET keep == { j \in 1..Len(seq) : \A m \in (j + 1)..Len(seq) : seq[m] # seq[j] }
        F[j \in 0..Len(seq)] ==
            IF j = 0 THEN <<>>
            ELSE IF j \in keep THEN Append(F[j - 1], seq[j]) ELSE F[j - 1]
    IN  F[Len(seq)]

LastN(n, seq) == IF Len(seq) <= n THEN seq ELSE SubSeq(seq, Len(seq) - n + 1, Len(seq))

Events(kind) == { j \in 1..Len(trace) : trace[j][1] = kind }

\* ---------------------------------------------------------------- C1
\* C1 (as stated): fit on an encoder configured with minmax_hash=True and an
\* odd n_components, or with minmax_hash=True and hashing="murmur", ends in a
\* configuration error.
C1_FitRejectsInvalidMinmax ==
    (op = "fit" /\ cfg.minmax_hash
        /\ (cfg.n_components % 2 = 1 \/ cfg.hashing = "murmur"))
    => outcome \in {"ValueError: hashing", "ValueError: handle_missing",
                    "ValueError: minmax_hash"}

C3_ZeroImpute ==
    (op = "transform" /\ Fitted /\ ValidConfig(cfg)
        /\ cfg.handle_missing = "zero_impute")
    => /\ outcome = "ok"
       /\ \A i \in Rows(X) : \A k \in Cols(X) :
             /\ IsMissing(X[i][k + 1]) => SubVector(X_out[i], k) = ZeroVector
             /\ IsText(X[i][k + 1])
                => SubVector(X_out[i], k) = reduce(cfg, X[i][k + 1].s)

C3_Witness ==
    /\ op = "transform" /\ Fitted /\ ValidConfig(cfg)
    /\ cfg.handle_missing = "zero_impute" /\ outcome = "ok"
    /\ \E i \in Rows(X) : \E k \in Cols(X) : IsMissing(X[i][k + 1])
    /\ \E i \in Rows(X) : \E k \in Cols(X) : IsText(X[i][k + 1])

\* ---------------------------------------------------------------- C4
\* C4: on a fitted encoder with a valid configuration and
\* handle_missing=error, a transform whose input has a missing cell (None,
\* NaN) anywhere raises the missing-data error and returns no matrix; with
\* handle_missing=zero_impute the missing-data error is never raised.
C4_MissingDataError ==
    /\ (op = "transform" /\ Fitted /\ ValidConfig(cfg)
           /\ cfg.handle_missing = "error"
           /\ \E i \in Rows(X) : \E k \in Cols(X) : IsMissing(X[i][k + 1]))
       => (outcome = "ValueError: missing" /\ X_out = <<>>)
    /\ (op = "transform" /\ cfg.handle_missing = "zero_impute")
       => outcome # "ValueError: missing"

\* the missing cell is not the last cell processed, and a string follows it
C4_Witness ==
    /\ op = "transform" /\ Fitted /\ cfg.handle_missing = "error"
    /\ outcome = "ValueError: missing" /\ X_out = <<>>
    /\ IsMissing(X[1][1]) /\ IsText(X[Len(X)][Len(X[1])])

\* ---------------------------------------------------------------- C5
\* C5: whatever the cache holds, transform(X) on a fitted encoder ends as
\* transform(X) ends on a freshly fitted encoder of the same configuration:
\* the same outcome and the same matrix.
C5_CacheTransparency ==
    (op = "transform" /\ Fitted)
    => \E fresh \in {transform_result(cfg, fit_result(cfg, NoDict, -1).hd, X)} :
          outcome = fresh.outcome /\ X_out = fresh.X_out

\* a successful transform that was served from the cache after an eviction
C5_Witness ==
    /\ op = "transform" /\ Fitted /\ outcome = "ok"
    /\ Events("hit") # {} /\ Events("evict") # {}

\* ---------------------------------------------------------------- C6
\* C6 (as stated): an empty-string cell is encoded as the MinHash of the
\* n-grams of the sentinel " Na ", and transform returns that vector.
C6_EmptyStringEncodedAsSentinel ==
    (op = "transform" /\ Fitted /\ ValidConfig(cfg))
    => \A i \in Rows(X) : \A k \in Cols(X) :
          IsEmptyStr(X[i][k + 1])
          => /\ outcome = "ok"
             /\ SubVector(X_out[i], k) = reduce(cfg, Sentinel)

\* C6 (amended): transform treats an empty-string cell as a missing cell: it
\* is never hashed nor cached, its sub-vector is all zeros under zero_impute,
\* and under handle_missing=error transform raises the missing-data error.
C6_EmptyStringTreatedAsMissing ==
    (op = "transform" /\ Fitted /\ ValidConfig(cfg)
        /\ \E i \in Rows(X) : \E k \in Cols(X) : IsEmptyStr(X[i][k + 1]))
    => /\ \A j \in 1..Len(hash_dict_.cache) : hash_dict_.cache[j].key # <<>>
       /\ cfg.handle_missing = "error"
          => (outcome = "ValueError: missing" /\ X_out = <<>>)
       /\ cfg.handle_missing = "zero_impute"
          => /\ outcome = "ok"
             /\ \A i \in Rows(X) : \A k \in Cols(X) :
                   IsEmptyStr(X[i][k + 1]) => SubVector(X_out[i], k) = ZeroVector

C6_Witness ==
    /\ op = "transform" /\ Fitted /\ ValidConfig(cfg) /\ outcome = "ok"
    /\ \E i \in Rows(X) : \E k \in Cols(X) : IsEmptyStr(X[i][k + 1])
    /\ \E i \in Rows(X) : \E k \in Cols(X) : IsText(X[i][k + 1])

\* ---------------------------------------------------------------- C7
\* C7: the hash cache never holds more than _capacity entries, and after
\* every transform it holds the _capacity most recently used strings, in
\* order of last use: an insertion into a full cache evicts the least
\* recently used entry and a hit counts as a use.
C7_CacheBoundedLRU ==
    /\ [](Len(hash_dict_.cache) <= _capacity)
    /\ [][ op' = "transform"
           => IF outcome' = "AssertionError" \/ ~hash_dict_.set
              THEN hash_dict_' = hash_dict_
              ELSE Keys(hash_dict_') =
                     LastN(_capacity,
                           DedupLast(Keys(hash_dict_) \o Accessed(X', 0, 1))) ]_vars

\* a hit followed by an insertion that evicts an entry from the full cache
C7_Witness ==
    /\ op = "transform" /\ Len(hash_dict_.cache) = _capacity
    /\ \E a \in Events("hit") : \E b \in Events("evict") : a < b

\* ---------------------------------------------------------------- C8
\* C8: for a valid configuration, a successful transform of an input of
\* shape (r, c) returns r rows of c * n_components values, and in row i the
\* values k * n_components .. (k + 1) * n_components - 1 are the encoding of
\* the cell of row i and column k (zeros for a missing or empty cell).
C8_ShapeAndLayout ==
    (op = "transform" /\ outcome = "ok" /\ ValidConfig(cfg))
    => /\ Len(X_out) = Len(X)
       /\ \A i \in Rows(X) :
             /\ Len(X_out[i]) = Len(X[1]) * cfg.n_components
             /\ \A k \in Cols(X) :
                   SubVector(X_out[i], k) =
                      IF IsText(X[i][k + 1]) THEN reduce(cfg, X[i][k + 1].s)
                      ELSE ZeroVector

\* two columns holding different strings
C8_Witness ==
    /\ op = "transform" /\ outcome = "ok" /\ ValidConfig(cfg)
    /\ Len(X[1]) = 2 /\ IsText(X[1][1]) /\ IsText(X[1][2]) /\ X[1][1] # X[1][2]
    /\ SubVector(X_out[1], 0) # SubVector(X_out[1], 1)

\* ---------------------------------------------------------------- C9
\* C9 (as stated): any two runs of the benchmark pipeline
\* MinHashEncoder(batch=..., n_jobs=..., batch_per_job=...).fit(X).transform(X)
\* on the same X yield matrices, and the same one.
C9_ParallelismInvariance ==
    \A a \in 1..Len(bench) : \A b \in 1..Len(bench) :
        /\ bench[a].outcome = "ok"
        /\ bench[a].X_out = bench[b].X_out

\* ---------------------------------------------------------------- C10
\* C10: a transform that raises the missing-data error leaves hash_dict_ as
\* the same call under handle_missing=zero_impute leaves it: every string of
\* the input has been looked up or hashed and inserted before the error, so
\* the last string processed is in the cache.
C10_ErrorAfterAllCells ==
    [][ (op' = "transform" /\ outcome' = "ValueError: missing")
        => /\ hash_dict_' =
                transform_result([cfg EXCEPT !.handle_missing = "zero_impute"],
                                 hash_dict_, X').hd
           /\ (hash_dict_.set /\ Accessed(X', 0, 1) # <<>>)
              => LET acc == Accessed(X', 0, 1)
                 IN  LRUContains(hash_dict_', acc[Len(acc)]) ]_vars

\* the error was raised although a string after the missing cell was hashed
\* and inserted by the failed call
C10_Witness ==
    /\ op = "transform" /\ outcome = "ValueError: missing"
    /\ IsMissing(X[1][1]) /\ Events("miss") # {}

====
